---- MODULE Spec2Model ----
(***************************************************************************)
(* Netatmo climate platform (custom_components/netatmo/climate.py).        *)
(*                                                                         *)
(* One NetatmoThermostat entity: its cached fields, the webhook handler    *)
(* handle_event, the refresh async_update_callback, the command coroutines *)
(* (async_set_hvac_mode, async_set_preset_mode, async_set_temperature,     *)
(* async_turn_on, async_turn_off), the set-schedule service, and the       *)
(* platform set-up async_setup_entry.                                      *)
(*                                                                         *)
(* Python's None is the string "None"; a missing temperature is NoTemp;    *)
(* Python's True/False in a tri-state field (bool | None) are the strings  *)
(* "True"/"False".  A failed dict lookup is the value KeyError; the        *)
(* handler that meets it stops there with what it had assigned so far.     *)
(***************************************************************************)
EXTENDS Integers, Sequences, FiniteSets, TLC

VARIABLES
    entity,           \* the cached fields of the NetatmoThermostat
    lastOp,           \* the handler that ran last
    lastEvent,        \* the webhook event handle_event received last
    lastReachable,    \* room.reachable as read by the last async_update_callback
    rendered,         \* the last handler called async_write_ha_state
    forced,           \* the last handler called data_handler.async_force_update
    err,              \* the exception the last handler / command raised
    schedules,        \* hass.data[DOMAIN][DATA_SCHEDULES][home_id], in dict order
    pc,               \* the await at which the command coroutine is suspended
    cmd,              \* the command in flight (or the last one completed)
    calls,            \* the vendor calls that command has issued, in order
    writes,           \* the async_write_ha_state calls that command has made
    start,            \* the cached hvac mode, preset and target temperature it started with
    interleaved,      \* a callback ran on the entity since that command began
    setup             \* the run of async_setup_entry

vars == <<entity, lastOp, lastEvent, lastReachable, rendered, forced, err,
          schedules, pc, cmd, calls, writes, start, interleaved, setup>>

eventVars == <<lastOp, lastEvent, lastReachable, rendered, forced>>
cmdVars == <<pc, cmd, calls, writes, start, interleaved>>

----------------------------------------------------------------------------
(* Vocabulary                                                              *)

None == "None"
NoTemp == -1
KeyError == "KeyError"
NoError == "ok"
Absent == "absent"

HVAC_MODE_AUTO == "auto"
HVAC_MODE_HEAT == "heat"
HVAC_MODE_OFF == "off"
PRESET_AWAY == "away"
PRESET_BOOST == "boost"
STATE_OFF == "off"
DEFAULT_MIN_TEMP == 7

EVENT_TYPE_SET_POINT == "set_point"
EVENT_TYPE_CANCEL_SET_POINT == "cancel_set_point"
EVENT_TYPE_THERM_MODE == "therm_mode"
EVENT_TYPE_SCHEDULE == "schedule"
MODULE_TYPE_THERM == "NATherm1"
MODULE_TYPE_VALVE == "NRV"

PRESET_FROST_GUARD == "Frost Guard"
PRESET_SCHEDULE == "Schedule"
PRESET_MANUAL == "Manual"

SUPPORT_HVAC == {HVAC_MODE_HEAT, HVAC_MODE_AUTO, HVAC_MODE_OFF}
SUPPORT_PRESET == {PRESET_AWAY, PRESET_BOOST, PRESET_FROST_GUARD, PRESET_SCHEDULE}

STATE_NETATMO_SCHEDULE == "schedule"
STATE_NETATMO_HG == "hg"
STATE_NETATMO_MAX == "max"
STATE_NETATMO_AWAY == PRESET_AWAY
STATE_NETATMO_OFF == STATE_OFF
STATE_NETATMO_MANUAL == "manual"
STATE_NETATMO_HOME == "home"

PRESET_MAP_NETATMO ==
    (PRESET_FROST_GUARD :> STATE_NETATMO_HG) @@
    (PRESET_BOOST :> STATE_NETATMO_MAX) @@
    (PRESET_SCHEDULE :> STATE_NETATMO_SCHEDULE) @@
    (PRESET_AWAY :> STATE_NETATMO_AWAY) @@
    (STATE_NETATMO_OFF :> STATE_NETATMO_OFF)

NETATMO_MAP_PRESET ==
    (STATE_NETATMO_HG :> PRESET_FROST_GUARD) @@
    (STATE_NETATMO_MAX :> PRESET_BOOST) @@
    (STATE_NETATMO_SCHEDULE :> PRESET_SCHEDULE) @@
    (STATE_NETATMO_AWAY :> PRESET_AWAY) @@
    (STATE_NETATMO_OFF :> STATE_NETATMO_OFF) @@
    (STATE_NETATMO_MANUAL :> STATE_NETATMO_MANUAL) @@
    (STATE_NETATMO_HOME :> PRESET_SCHEDULE)

\* HVAC_MAP_NETATMO without its "manual" entry.
HVAC_MAP_NETATMO_NoManual ==
    (PRESET_SCHEDULE :> HVAC_MODE_AUTO) @@
    (STATE_NETATMO_HG :> HVAC_MODE_AUTO) @@
    (PRESET_FROST_GUARD :> HVAC_MODE_AUTO) @@
    (PRESET_BOOST :> HVAC_MODE_HEAT) @@
    (STATE_NETATMO_OFF :> HVAC_MODE_OFF) @@
    (PRESET_MANUAL :> HVAC_MODE_AUTO) @@
    (STATE_NETATMO_AWAY :> HVAC_MODE_AUTO)

HVAC_MAP_NETATMO ==
    (PRESET_SCHEDULE :> HVAC_MODE_AUTO) @@
    (STATE_NETATMO_HG :> HVAC_MODE_AUTO) @@
    (PRESET_FROST_GUARD :> HVAC_MODE_AUTO) @@
    (PRESET_BOOST :> HVAC_MODE_HEAT) @@
    (STATE_NETATMO_OFF :> HVAC_MODE_OFF) @@
    (STATE_NETATMO_MANUAL :> HVAC_MODE_AUTO) @@
    (PRESET_MANUAL :> HVAC_MODE_AUTO) @@
    (STATE_NETATMO_AWAY :> HVAC_MODE_AUTO)

DEFAULT_MAX_TEMP == 30

\* d[k] of a Python dict: the value, or KeyError when k is no key of d.
Lookup(d, k) == IF k \in DOMAIN d THEN d[k] ELSE KeyError

----------------------------------------------------------------------------
(* Bounds and input domains                                                *)

MaxRooms == 2        \* rooms carried by one webhook event
MaxSchedules == 2    \* schedules stored for the home

OwnHome == "h1"
OwnRoom == "r1"
HomeIds == {"h1", "h2"}
RoomIds == {"r1", "r2"}
ScheduleIds == {"s1", "s2", "s3"}
ScheduleNames == {"A", "B"}
\* the schedule ids webhook events carry: a stored one and an unknown one
EventScheduleIds == {"s1", "s2", "s9"}
\* the vendor modes (STATE_NETATMO_*, lines 81-87) events and rooms carry
VendorModes == {STATE_NETATMO_HG, STATE_NETATMO_MAX, STATE_NETATMO_SCHEDULE,
                STATE_NETATMO_AWAY, STATE_NETATMO_OFF, STATE_NETATMO_MANUAL,
                STATE_NETATMO_HOME}
SetpointTemps == {21, DEFAULT_MAX_TEMP}
ReadTemps == {0, 21, DEFAULT_MAX_TEMP}
MeasuredTemps == {19}
AwayTemps == {12}
HgTemps == {DEFAULT_MIN_TEMP}

\* bool(x) of a bool | None value
Bool(x) == x = "True"

RECURSIVE SeqsUpTo(_, _)
SeqsUpTo(S, n) ==
    IF n = 0 THEN {<<>>}
    ELSE LET shorter == SeqsUpTo(S, n - 1)
         IN shorter \cup {Append(s, x) : s \in {t \in shorter : Len(t) = n - 1}, x \in S}

DistinctIds(s) == \A i, j \in 1..Len(s) : i # j => s[i].id # s[j].id

----------------------------------------------------------------------------
(* The entity and what it reads                                            *)

\* NetatmoThermostat.__init__: the cached fields after construction.
NewThermostat(model) ==
    [ model               |-> model,
      current_temperature |-> NoTemp,
      target_temperature  |-> NoTemp,
      preset              |-> None,
      hvac_mode           |-> HVAC_MODE_AUTO,
      connected           |-> None,
      away_temperature    |-> NoTemp,
      hg_temperature      |-> NoTemp,
      selected_schedule   |-> None ]

\* the vendor room (self._room and its home) as one refresh reads it
RoomReads ==
    [ reachable                 : {"True"},
      therm_measured_temperature: MeasuredTemps,
      therm_setpoint_temperature: ReadTemps,
      therm_setpoint_mode       : VendorModes,
      away_temp                 : AwayTemps,
      hg_temp                   : HgTemps,
      selected_schedule         : {None} \cup ScheduleNames ]
    \cup
    [ reachable                 : {None, "False"},
      therm_measured_temperature: {NoTemp},
      therm_setpoint_temperature: {NoTemp},
      therm_setpoint_mode       : {STATE_NETATMO_SCHEDULE},
      away_temp                 : {NoTemp},
      hg_temp                   : {NoTemp},
      selected_schedule         : {None} ]

SomeRoomRead == CHOOSE r \in RoomReads : r.reachable = "False"

\* NetatmoThermostat.available
available(c) == Bool(c.connected)

\* async_update_callback when the room is unreachable, keeping the flag as it is
update_unreachable_keep(c) == c

\* async_update_callback when the room is unreachable (lines 490-493)
update_unreachable(c) ==
    IF available(c) THEN [c EXCEPT !.connected = "False"] ELSE c

\* async_update_callback: the cache after it, and whether a lookup failed
async_update_callback(c, room) ==
    IF ~Bool(room.reachable)
    THEN [c |-> update_unreachable(c), err |-> NoError]
    ELSE LET c1 == [c EXCEPT !.connected = "True",
                             !.away_temperature = room.away_temp,
                             !.hg_temperature = room.hg_temp,
                             !.current_temperature = room.therm_measured_temperature,
                             !.target_temperature = room.therm_setpoint_temperature]
             p == Lookup(NETATMO_MAP_PRESET, room.therm_setpoint_mode)
             h == Lookup(HVAC_MAP_NETATMO, p)
         IN IF p = KeyError THEN [c |-> c1, err |-> KeyError]
            ELSE IF h = KeyError
                 THEN [c |-> [c1 EXCEPT !.preset = p], err |-> KeyError]
                 ELSE [c |-> [c1 EXCEPT !.preset = p, !.hvac_mode = h,
                                        !.selected_schedule = room.selected_schedule],
                       err |-> NoError]

----------------------------------------------------------------------------
(* Webhook events                                                          *)

RoomEntries ==
    [ id: {OwnRoom},
      therm_setpoint_mode: VendorModes \ {STATE_NETATMO_OFF, STATE_NETATMO_MAX},
      therm_setpoint_temperature: SetpointTemps ]
    \cup
    [ id: {OwnRoom},
      therm_setpoint_mode: {STATE_NETATMO_OFF, STATE_NETATMO_MAX},
      therm_setpoint_temperature: {NoTemp} ]
    \cup
    [ id: RoomIds \ {OwnRoom}, therm_setpoint_mode: {STATE_NETATMO_MANUAL},
      therm_setpoint_temperature: {21} ]

IdOnlyEntries ==
    [ id: RoomIds, therm_setpoint_mode: {STATE_NETATMO_SCHEDULE},
      therm_setpoint_temperature: {21} ]

RoomLists(entries) == {s \in SeqsUpTo(entries, MaxRooms) : DistinctIds(s)}

\* {"data": {"home_id", "event_type", "schedule_id"?, "home": {"id", ...}}}
Event(hid, type, sid, homeid, mode, rooms) ==
    [ home_id |-> hid, event_type |-> type, schedule_id |-> sid,
      home |-> [id |-> homeid, therm_mode |-> mode, rooms |-> rooms] ]

ScheduleEvents ==
    { Event(h, EVENT_TYPE_SCHEDULE, s, h2, Absent, <<>>) :
        h \in HomeIds, h2 \in HomeIds, s \in {Absent} \cup EventScheduleIds }
ThermModeEvents ==
    { Event(h, EVENT_TYPE_THERM_MODE, Absent, h2, m, <<>>) :
        h \in HomeIds, h2 \in HomeIds, m \in VendorModes }
SetPointEvents ==
    { Event(h, EVENT_TYPE_SET_POINT, Absent, h2, Absent, rs) :
        h \in HomeIds, h2 \in HomeIds, rs \in RoomLists(RoomEntries) }
CancelSetPointEvents ==
    { Event(h, EVENT_TYPE_CANCEL_SET_POINT, Absent, h2, Absent, rs) :
        h \in HomeIds, h2 \in HomeIds, rs \in RoomLists(IdOnlyEntries) }
Events == ScheduleEvents \cup ThermModeEvents \cup SetPointEvents
          \cup CancelSetPointEvents

NoEvent == Event(None, None, Absent, None, Absent, <<>>)

\* getattr(schedules.get(schedule_id), "name", None)
ScheduleNameOf(scheds, sid) ==
    IF \E i \in 1..Len(scheds) : scheds[i].id = sid
    THEN scheds[CHOOSE i \in 1..Len(scheds) : scheds[i].id = sid].name
    ELSE None

\* what a run of handle_event leaves: the cache and what it asked of the platform
Handled(c, r, f, e, u) ==
    [c |-> c, rendered |-> r, forced |-> f, err |-> e, refreshed |-> u]

\* handle_event, the set-point branch for the entity's room (lines 309-323)
set_point(c, room) ==
    IF room.therm_setpoint_mode = STATE_NETATMO_OFF
    THEN [c EXCEPT !.hvac_mode = HVAC_MODE_OFF, !.preset = STATE_NETATMO_OFF,
                   !.target_temperature = 0]
    ELSE IF room.therm_setpoint_mode = STATE_NETATMO_MAX
    THEN [c EXCEPT !.hvac_mode = HVAC_MODE_HEAT,
                   !.preset = Lookup(PRESET_MAP_NETATMO, PRESET_BOOST),
                   !.target_temperature = DEFAULT_MAX_TEMP]
    ELSE IF room.therm_setpoint_mode = STATE_NETATMO_MANUAL
    THEN [c EXCEPT !.hvac_mode = HVAC_MODE_HEAT,
                   !.target_temperature = room.therm_setpoint_temperature]
    ELSE [c EXCEPT !.target_temperature = room.therm_setpoint_temperature,
                   !.hvac_mode = IF room.therm_setpoint_temperature = DEFAULT_MAX_TEMP
                                 THEN HVAC_MODE_HEAT ELSE @]

\* handle_event, the therm-mode branch (lines 294-305)
therm_mode(c, home, read) ==
    LET p == Lookup(NETATMO_MAP_PRESET, home.therm_mode)
        h == Lookup(HVAC_MAP_NETATMO, p)
        c2 == [c EXCEPT !.preset = p, !.hvac_mode = h]
    IN IF p = KeyError THEN Handled(c, FALSE, FALSE, KeyError, FALSE)
       ELSE IF h = KeyError
       THEN Handled([c EXCEPT !.preset = p], FALSE, FALSE, KeyError, FALSE)
       ELSE IF p = PRESET_FROST_GUARD
       THEN Handled([c2 EXCEPT !.target_temperature = c.hg_temperature],
                    TRUE, FALSE, NoError, FALSE)
       ELSE IF p = PRESET_AWAY
       THEN Handled([c2 EXCEPT !.target_temperature = c.away_temperature],
                    TRUE, FALSE, NoError, FALSE)
       ELSE IF p = PRESET_SCHEDULE
       THEN LET u == async_update_callback(c2, read)
            IN IF u.err = KeyError THEN Handled(u.c, FALSE, FALSE, KeyError, TRUE)
               ELSE Handled(u.c, TRUE, TRUE, NoError, TRUE)
       ELSE Handled(c2, TRUE, FALSE, NoError, FALSE)

\* the first room of the list the loop of lines 307-333 stops at, 0 when none
RECURSIVE FirstRoom(_, _, _)
FirstRoom(rooms, type, i) ==
    IF i > Len(rooms) THEN 0
    ELSE IF type \in {EVENT_TYPE_SET_POINT, EVENT_TYPE_CANCEL_SET_POINT}
            /\ rooms[i].id = OwnRoom
         THEN i
         ELSE FirstRoom(rooms, type, i + 1)

\* handle_event, the loop over home["rooms"] (lines 307-333)
rooms_loop(c, data, read) ==
    LET i == FirstRoom(data.home.rooms, data.event_type, 1)
    IN IF i = 0 THEN Handled(c, FALSE, FALSE, NoError, FALSE)
       ELSE IF data.event_type = EVENT_TYPE_SET_POINT
       THEN Handled(set_point(c, data.home.rooms[i]), TRUE, FALSE, NoError, FALSE)
       ELSE LET u == async_update_callback(c, read)
            IN IF u.err = KeyError THEN Handled(u.c, FALSE, FALSE, KeyError, TRUE)
               ELSE Handled(u.c, TRUE, FALSE, NoError, TRUE)

\* the guard of line 271 dropped: every home's events are taken
other_home_never(data) == FALSE

\* self._home_id != data["home_id"] (line 271)
other_home(data) == OwnHome # data.home_id

\* handle_event (lines 266-333)
handle_event(c, scheds, data, read) ==
    IF other_home(data) THEN Handled(c, FALSE, FALSE, NoError, FALSE)
    ELSE IF data.event_type = EVENT_TYPE_SCHEDULE /\ data.schedule_id # Absent
    THEN Handled([c EXCEPT !.selected_schedule = ScheduleNameOf(scheds, data.schedule_id)],
                 TRUE, TRUE, NoError, FALSE)
    ELSE IF OwnHome # data.home.id THEN Handled(c, FALSE, FALSE, NoError, FALSE)
    ELSE IF data.event_type = EVENT_TYPE_THERM_MODE THEN therm_mode(c, data.home, read)
    ELSE rooms_loop(c, data, read)

----------------------------------------------------------------------------
(* Events and refreshes on one entity                                      *)

Models == {MODULE_TYPE_THERM, MODULE_TYPE_VALVE}
NoCmd == [op |-> None, arg |-> None, raised |-> None]
NoStart == [hvac_mode |-> None, preset |-> None, target_temperature |-> NoTemp]
NoSetup == [pc |-> None]

\* the schedules async_setup_entry stored for the entity's home
HomeSchedules == << [id |-> "s1", name |-> "A"], [id |-> "s2", name |-> "B"] >>

CommandsIdle ==
    /\ pc = "idle" /\ cmd = NoCmd /\ calls = <<>> /\ writes = 0
    /\ start = NoStart /\ interleaved = FALSE

Init ==
    /\ entity \in {NewThermostat(m) : m \in Models}
    /\ lastOp = "idle" /\ lastEvent = NoEvent /\ lastReachable = None
    /\ rendered = FALSE /\ forced = FALSE /\ err = NoError
    /\ schedules = HomeSchedules
    /\ CommandsIdle
    /\ setup = NoSetup

\* the reads a run of handle_event on data makes of the vendor room
ReadsOf(c, scheds, data) ==
    IF handle_event(c, scheds, data, SomeRoomRead).refreshed
    THEN RoomReads ELSE {SomeRoomRead}

\* The event loop runs one callback at a time: a handler starts when the loop
\* is idle, and lastOp, lastEvent, rendered, forced and err describe its run
\* until it returns to the loop.
LoopIdle == lastOp = "idle"

\* the dispatcher delivers a webhook event of E to handle_event
HandleEventIn(E) ==
    /\ LoopIdle
    /\ \E data \in E : \E read \in ReadsOf(entity, schedules, data) :
        LET r == handle_event(entity, schedules, data, read)
        IN /\ entity' = r.c
           /\ lastOp' = "handle_event"
           /\ lastEvent' = data
           /\ lastReachable' = IF r.refreshed THEN read.reachable ELSE lastReachable
           /\ rendered' = r.rendered
           /\ forced' = r.forced
           /\ err' = r.err
           /\ interleaved' = (interleaved \/ cmd.op # None)
           /\ UNCHANGED <<schedules, pc, cmd, calls, writes, start, setup>>

HandleEvent == HandleEventIn(Events)

\* the data handler's signal runs async_update_callback, which reads R
AsyncUpdateCallbackIn(R) ==
    /\ LoopIdle
    /\ \E read \in R :
        LET u == async_update_callback(entity, read)
        IN /\ entity' = u.c
           /\ lastOp' = "async_update_callback"
           /\ lastEvent' = NoEvent
           /\ lastReachable' = read.reachable
           /\ rendered' = FALSE
           /\ forced' = FALSE
           /\ err' = u.err
           /\ interleaved' = (interleaved \/ cmd.op # None)
           /\ UNCHANGED <<schedules, pc, cmd, calls, writes, start, setup>>

AsyncUpdateCallback == AsyncUpdateCallbackIn(RoomReads)

\* the callback returns to the event loop
Return ==
    /\ lastOp \in {"handle_event", "async_update_callback"}
    /\ lastOp' = "idle"
    /\ lastEvent' = NoEvent
    /\ rendered' = FALSE
    /\ forced' = FALSE
    /\ err' = NoError
    /\ UNCHANGED <<entity, lastReachable, schedules, cmdVars, setup>>

Next == HandleEvent \/ AsyncUpdateCallback \/ Return

Spec == Init /\ [][Next]_vars

----------------------------------------------------------------------------
(* Commands: coroutines suspended at each awaited vendor call              *)

\* the vendor SDK calls
Thermpoint(mode) ==
    [fn |-> "async_set_room_thermpoint", args |-> <<OwnRoom, mode>>]
ThermpointTemp(mode, temp) ==
    [fn |-> "async_set_room_thermpoint", args |-> <<OwnRoom, mode, temp>>]
Thermmode(mode) == [fn |-> "async_set_thermmode", args |-> <<mode>>]
SwitchHomeSchedule(sid) == [fn |-> "async_switch_home_schedule", args |-> <<sid>>]

\* where a command stands after a stretch of code run without suspending:
\* suspended at pc on the call it issued, or back at "idle" (returned or raised)
Stretch(at, issued, wrote, raised) ==
    [pc |-> at, issued |-> issued, wrote |-> wrote, raised |-> raised]

\* async_turn_off with a valve treated like a thermostat
turn_off_no_valve(c) ==
    IF c.hvac_mode # HVAC_MODE_OFF
    THEN Stretch("turn_off", <<Thermpoint(STATE_NETATMO_OFF)>>, 0, None)
    ELSE Stretch("idle", <<>>, 1, None)

\* async_turn_off up to its await (lines 465-475)
turn_off(c) ==
    IF c.model = MODULE_TYPE_VALVE
    THEN Stretch("turn_off",
                 <<ThermpointTemp(STATE_NETATMO_MANUAL, DEFAULT_MIN_TEMP)>>, 0, None)
    ELSE IF c.hvac_mode # HVAC_MODE_OFF
    THEN Stretch("turn_off", <<Thermpoint(STATE_NETATMO_OFF)>>, 0, None)
    ELSE Stretch("idle", <<>>, 1, None)

\* async_set_preset_mode, the branch on the requested preset (lines 409-443)
preset_branch(c, preset_mode) ==
    IF /\ preset_mode \in {PRESET_BOOST, STATE_NETATMO_MAX}
       /\ c.model = MODULE_TYPE_VALVE
       /\ c.hvac_mode = HVAC_MODE_HEAT
    THEN Stretch("preset_branch", <<Thermpoint(STATE_NETATMO_HOME)>>, 0, None)
    ELSE IF /\ preset_mode \in {PRESET_BOOST, STATE_NETATMO_MAX}
            /\ c.model = MODULE_TYPE_VALVE
    THEN Stretch("preset_branch",
                 <<ThermpointTemp(STATE_NETATMO_MANUAL, DEFAULT_MAX_TEMP)>>, 0, None)
    ELSE IF /\ preset_mode \in {PRESET_BOOST, STATE_NETATMO_MAX}
            /\ c.hvac_mode = HVAC_MODE_HEAT
    THEN Stretch("preset_branch", <<Thermpoint(STATE_NETATMO_HOME)>>, 0, None)
    ELSE IF preset_mode \in {PRESET_BOOST, STATE_NETATMO_MAX}
    THEN IF preset_mode \in DOMAIN PRESET_MAP_NETATMO
         THEN Stretch("preset_branch",
                      <<Thermpoint(PRESET_MAP_NETATMO[preset_mode])>>, 0, None)
         ELSE Stretch("idle", <<>>, 0, KeyError)
    ELSE IF preset_mode \in {PRESET_SCHEDULE, PRESET_FROST_GUARD, PRESET_AWAY}
    THEN IF preset_mode \in DOMAIN PRESET_MAP_NETATMO
         THEN Stretch("preset_branch",
                      <<Thermmode(PRESET_MAP_NETATMO[preset_mode])>>, 0, None)
         ELSE Stretch("idle", <<>>, 0, KeyError)
    ELSE Stretch("idle", <<>>, 1, None)

\* the check of line 403 left out
target_is_zero_never(c) == FALSE

\* self.target_temperature == 0 (line 403)
target_is_zero(c) == c.target_temperature = 0

\* async_set_preset_mode from the check of line 403 on
preset_from_target_check(c, preset_mode) ==
    IF target_is_zero(c)
    THEN Stretch("preset_home", <<Thermpoint(STATE_NETATMO_HOME)>>, 0, None)
    ELSE preset_branch(c, preset_mode)

\* async_set_preset_mode from its first line (line 400) on
preset_from_start(c, preset_mode) ==
    IF c.hvac_mode = HVAC_MODE_OFF
    THEN Stretch("preset_turn_on", <<Thermpoint(STATE_NETATMO_HOME)>>, 0, None)
    ELSE preset_from_target_check(c, preset_mode)

\* async_set_hvac_mode up to its first await (lines 387-396)
set_hvac_mode(c, hvac_mode) ==
    IF hvac_mode = HVAC_MODE_OFF THEN turn_off(c)
    ELSE IF hvac_mode = HVAC_MODE_AUTO
    THEN IF c.hvac_mode = HVAC_MODE_OFF
         THEN Stretch("hvac_turn_on", <<Thermpoint(STATE_NETATMO_HOME)>>, 0, None)
         ELSE preset_from_start(c, PRESET_SCHEDULE)
    ELSE IF hvac_mode = HVAC_MODE_HEAT THEN preset_from_start(c, PRESET_BOOST)
    ELSE Stretch("idle", <<>>, 0, None)

\* min(temp, DEFAULT_MAX_TEMP)
Min(a, b) == IF a < b THEN a ELSE b

\* async_set_temperature sending the temperature as given
set_temperature_uncapped(c, temp) ==
    IF temp = NoTemp THEN Stretch("idle", <<>>, 0, None)
    ELSE Stretch("set_temperature",
                 <<ThermpointTemp(STATE_NETATMO_MANUAL, temp)>>, 0, None)

\* async_set_temperature up to its await (lines 455-461); NoTemp: no temperature
set_temperature(c, temp) ==
    IF temp = NoTemp THEN Stretch("idle", <<>>, 0, None)
    ELSE Stretch("set_temperature",
                 <<ThermpointTemp(STATE_NETATMO_MANUAL, Min(temp, DEFAULT_MAX_TEMP))>>,
                 0, None)

\* the preset async_set_preset_mode runs with in the command in flight
PresetInFlight ==
    IF cmd.op = "async_set_preset_mode" THEN cmd.arg
    ELSE IF cmd.arg = HVAC_MODE_AUTO THEN PRESET_SCHEDULE ELSE PRESET_BOOST

\* the platform calls a command method: it runs to its first await
Begin(op, arg, st) ==
    /\ LoopIdle /\ pc = "idle"
    /\ pc' = st.pc
    /\ cmd' = [op |-> op, arg |-> arg, raised |-> st.raised]
    /\ calls' = st.issued
    /\ writes' = st.wrote
    /\ start' = [hvac_mode |-> entity.hvac_mode, preset |-> entity.preset,
                 target_temperature |-> entity.target_temperature]
    /\ interleaved' = FALSE
    /\ UNCHANGED <<entity, eventVars, err, schedules, setup>>

\* the awaited vendor call returns: the command runs on to its next await
\* (wrote: the async_write_ha_state calls made before the stretch st)
Continue(at, wrote, st) ==
    /\ LoopIdle /\ pc = at
    /\ pc' = st.pc
    /\ cmd' = [cmd EXCEPT !.raised = st.raised]
    /\ calls' = calls \o st.issued
    /\ writes' = writes + wrote + st.wrote
    /\ UNCHANGED <<entity, eventVars, err, schedules, start, interleaved, setup>>

HvacModes == {HVAC_MODE_OFF, HVAC_MODE_AUTO, HVAC_MODE_HEAT}
\* the preset names commands are called with: the six the branches name, and
\* two they do not
InvalidPresets == {PRESET_MANUAL, "comfort"}
PresetNames == {PRESET_BOOST, STATE_NETATMO_MAX, PRESET_SCHEDULE,
                PRESET_FROST_GUARD, PRESET_AWAY} \cup InvalidPresets
\* no temperature, 0 (a temperature, though falsy), and values below, at and
\* above DEFAULT_MAX_TEMP
TemperatureArgs == {NoTemp, 0, 21, DEFAULT_MAX_TEMP, DEFAULT_MAX_TEMP + 1, 35}

AsyncSetHvacMode ==
    \E m \in HvacModes : Begin("async_set_hvac_mode", m, set_hvac_mode(entity, m))

AsyncSetPresetMode ==
    \E p \in PresetNames :
        Begin("async_set_preset_mode", p, preset_from_start(entity, p))

AsyncSetTemperature ==
    \E t \in TemperatureArgs :
        Begin("async_set_temperature", t, set_temperature(entity, t))

\* async_turn_off's call returns: it writes the state; async_set_hvac_mode ends
ResumeTurnOff == Continue("turn_off", 1, Stretch("idle", <<>>, 0, None))

\* async_set_hvac_mode's async_turn_on returns (line 393): on to line 394
ResumeHvacTurnOn ==
    Continue("hvac_turn_on", 1, preset_from_start(entity, PRESET_SCHEDULE))

\* async_set_preset_mode's async_turn_on returns (line 401): on to line 403
ResumePresetTurnOn ==
    Continue("preset_turn_on", 1, preset_from_target_check(entity, PresetInFlight))

\* the call of line 404 returns: on to line 409
ResumePresetHome ==
    Continue("preset_home", 0, preset_branch(entity, PresetInFlight))

\* the branch's call returns: async_write_ha_state (line 443)
ResumePresetBranch ==
    Continue("preset_branch", 1, Stretch("idle", <<>>, 0, None))

\* async_set_temperature's call returns: async_write_ha_state (line 463)
ResumeSetTemperature ==
    Continue("set_temperature", 1, Stretch("idle", <<>>, 0, None))

\* the callbacks that run between the stretches of a command
OwnSetPointEntries ==
    [ id: {OwnRoom}, therm_setpoint_mode: {STATE_NETATMO_MANUAL},
      therm_setpoint_temperature: {21} ]
    \cup
    [ id: {OwnRoom}, therm_setpoint_mode: {STATE_NETATMO_OFF, STATE_NETATMO_MAX},
      therm_setpoint_temperature: {NoTemp} ]
CommandEvents ==
    { Event(OwnHome, EVENT_TYPE_SET_POINT, Absent, OwnHome, Absent, <<e>>) :
        e \in OwnSetPointEntries }
CommandReads ==
    [ reachable                 : {"True"},
      therm_measured_temperature: MeasuredTemps,
      therm_setpoint_temperature: {0, 21},
      therm_setpoint_mode       : {STATE_NETATMO_OFF, STATE_NETATMO_MANUAL},
      away_temp                 : AwayTemps,
      hg_temp                   : HgTemps,
      selected_schedule         : {None} ]

CommandHandleEvent == HandleEventIn(CommandEvents)
CommandUpdateCallback == AsyncUpdateCallbackIn(CommandReads)

CommandNext ==
    \/ AsyncSetHvacMode \/ AsyncSetPresetMode \/ AsyncSetTemperature
    \/ ResumeTurnOff \/ ResumeHvacTurnOn \/ ResumePresetTurnOn
    \/ ResumePresetHome \/ ResumePresetBranch \/ ResumeSetTemperature
    \/ CommandHandleEvent \/ CommandUpdateCallback \/ Return

CommandSpec == Init /\ [][CommandNext]_vars

----------------------------------------------------------------------------
(* The set-schedule service                                                *)

\* the loop of lines 526-531 keeping the last schedule of that name
find_schedule_last(scheds, schedule_name) ==
    LET hits == {i \in 1..Len(scheds) : scheds[i].name = schedule_name}
    IN IF hits = {} THEN None
       ELSE scheds[CHOOSE i \in hits : \A j \in hits : j <= i].id

\* the loop of lines 525-531: the id of the first schedule of that name
RECURSIVE find_schedule_from(_, _, _)
find_schedule_from(scheds, schedule_name, i) ==
    IF i > Len(scheds) THEN None
    ELSE IF scheds[i].name = schedule_name THEN scheds[i].id
    ELSE find_schedule_from(scheds, schedule_name, i + 1)

find_schedule(scheds, schedule_name) == find_schedule_from(scheds, schedule_name, 1)

\* not x, of a str | None value
Not(x) == x = None \/ x = ""

\* _async_service_set_schedule up to its await (lines 523-537)
service_set_schedule(scheds, schedule_name) ==
    LET schedule_id == find_schedule(scheds, schedule_name)
    IN IF Not(schedule_id) THEN Stretch("idle", <<>>, 0, None)
       ELSE Stretch("switch_schedule", <<SwitchHomeSchedule(schedule_id)>>, 0, None)

\* the schedule names the service is called with: stored ones and another
ServiceNames == ScheduleNames \cup {"C"}

\* the schedules a home can have: a dict keyed by id, in insertion order
ScheduleLists ==
    {l \in SeqsUpTo([id: ScheduleIds, name: ScheduleNames], MaxSchedules) :
        DistinctIds(l)}

AsyncServiceSetSchedule ==
    \E n \in ServiceNames :
        Begin("_async_service_set_schedule", n, service_set_schedule(schedules, n))

\* async_switch_home_schedule returns (line 537): the debug log, and the end
ResumeSwitchSchedule ==
    Continue("switch_schedule", 0, Stretch("idle", <<>>, 0, None))

ServiceInit ==
    /\ entity \in {NewThermostat(m) : m \in Models}
    /\ lastOp = "idle" /\ lastEvent = NoEvent /\ lastReachable = None
    /\ rendered = FALSE /\ forced = FALSE /\ err = NoError
    /\ schedules \in ScheduleLists
    /\ CommandsIdle
    /\ setup = NoSetup

OwnScheduleEvents ==
    { Event(OwnHome, EVENT_TYPE_SCHEDULE, sid, OwnHome, Absent, <<>>) :
        sid \in ScheduleIds }

ServiceHandleEvent == HandleEventIn(OwnScheduleEvents)

ServiceNext ==
    \/ AsyncServiceSetSchedule \/ ResumeSwitchSchedule
    \/ ServiceHandleEvent \/ Return

ServiceSpec == ServiceInit /\ [][ServiceNext]_vars

----------------------------------------------------------------------------
(* async_setup_entry                                                       *)

MaxHomes == 2            \* homes of the topology
MaxRoomsPerHome == 2     \* rooms of one home

\* room.device_type.value, or None for a room without device type
DeviceTypes == {None, MODULE_TYPE_THERM, MODULE_TYPE_VALVE, "OTM"}

\* data_handler.data.get(CLIMATE_TOPOLOGY_CLASS_NAME): missing, or a topology
\* with its raw data and its homes (id and rooms, each room its device type)
Topologies ==
    { [present |-> FALSE, raw_data_empty |-> TRUE, homes |-> <<>>],
      [present |-> TRUE, raw_data_empty |-> TRUE, homes |-> <<>>] }
    \cup
    { [present |-> TRUE, raw_data_empty |-> FALSE, homes |-> hs] :
        hs \in {l \in SeqsUpTo([id: HomeIds,
                                rooms: SeqsUpTo(DeviceTypes, MaxRoomsPerHome)],
                               MaxHomes) : DistinctIds(l)} }

\* the test of lines 147-150 taking every room that has a device type
is_climate_room_any_type(device_type) == device_type # None

\* the test of lines 147-150, negated: the room gets an entity
is_climate_room(device_type) ==
    ~(device_type = None
      \/ device_type \notin {MODULE_TYPE_THERM, MODULE_TYPE_VALVE})

\* the entities the loop of lines 146-152 appends for the rooms from i on
RECURSIVE room_entities(_, _)
room_entities(home, i) ==
    IF i > Len(home.rooms) THEN <<>>
    ELSE (IF is_climate_room(home.rooms[i])
          THEN <<[home |-> home.id, room |-> i, model |-> home.rooms[i]]>>
          ELSE <<>>)
         \o room_entities(home, i + 1)

SetupStart(t) ==
    [ pc |-> "start", topology |-> t, next |-> 1, entities |-> <<>>,
      data_schedules |-> {}, data_homes |-> {}, added |-> <<>>,
      service |-> FALSE ]

SetupInit ==
    /\ entity = NewThermostat(MODULE_TYPE_THERM)
    /\ lastOp = "idle" /\ lastEvent = NoEvent /\ lastReachable = None
    /\ rendered = FALSE /\ forced = FALSE /\ err = NoError
    /\ schedules = HomeSchedules
    /\ CommandsIdle
    /\ setup \in {SetupStart(t) : t \in Topologies}

othersUnchanged ==
    UNCHANGED <<entity, eventVars, err, schedules, cmdVars>>

\* lines 127-135: the topology is registered and looked at
SetupCheck ==
    /\ setup.pc = "start"
    /\ setup' = [setup EXCEPT !.pc =
                    IF ~setup.topology.present \/ setup.topology.raw_data_empty
                    THEN "PlatformNotReady" ELSE "homes"]
    /\ othersUnchanged

\* lines 138-158: one round of the loop over home_ids
SetupHome ==
    /\ setup.pc = "homes"
    /\ setup.next <= Len(setup.topology.homes)
    /\ LET home == setup.topology.homes[setup.next]
       IN setup' = [setup EXCEPT
                       !.entities = @ \o room_entities(home, 1),
                       !.data_schedules = @ \cup {home.id},
                       !.data_homes = @ \cup {home.id},
                       !.next = @ + 1]
    /\ othersUnchanged

\* lines 160-170: the entities are added and the service registered
SetupFinish ==
    /\ setup.pc = "homes"
    /\ setup.next > Len(setup.topology.homes)
    /\ setup' = [setup EXCEPT !.pc = "done", !.added = setup.entities,
                              !.service = setup.topology.present]
    /\ othersUnchanged

SetupNext == SetupCheck \/ SetupHome \/ SetupFinish

SetupSpec == SetupInit /\ [][SetupNext]_vars

----------------------------------------------------------------------------
(* Properties of handle_event and async_update_callback (under Spec)       *)

\* the entry of the entity's own room in the event's rooms list
HasOwnRoom(data) == \E i \in 1..Len(data.home.rooms) : data.home.rooms[i].id = OwnRoom
OwnRoomOf(data) ==
    data.home.rooms[CHOOSE i \in 1..Len(data.home.rooms) :
                        data.home.rooms[i].id = OwnRoom]

\* a set-point event for the entity's own home and room
OwnSetPoint(data) ==
    /\ data.home_id = OwnHome /\ data.home.id = OwnHome
    /\ data.event_type = EVENT_TYPE_SET_POINT
    /\ HasOwnRoom(data)

\* the target temperature a set-point entry carries for its mode
CarriedTemperature(room) ==
    IF room.therm_setpoint_mode = STATE_NETATMO_OFF THEN 0
    ELSE IF room.therm_setpoint_mode = STATE_NETATMO_MAX THEN DEFAULT_MAX_TEMP
    ELSE room.therm_setpoint_temperature

\* C1: after handle_event has processed a set-point event for the entity's own
\* home and room, the cached target temperature is the one the event carries
\* for its therm_setpoint_mode, and the cached preset and hvac mode are
\* NETATMO_MAP_PRESET[mode] and HVAC_MAP_NETATMO[NETATMO_MAP_PRESET[mode]],
\* whatever the cache held before.
C1_SetPointMirrorsEvent ==
    (lastOp = "handle_event" /\ OwnSetPoint(lastEvent)) =>
        LET room == OwnRoomOf(lastEvent)
            p == Lookup(NETATMO_MAP_PRESET, room.therm_setpoint_mode)
        IN /\ entity.target_temperature = CarriedTemperature(room)
           /\ entity.preset = p
           /\ entity.hvac_mode = Lookup(HVAC_MAP_NETATMO, p)

\* a handler that does the lookups NETATMO_MAP_PRESET[mode], then
\* HVAC_MAP_NETATMO[preset], has just run
DidLookups ==
    \/ lastOp = "async_update_callback" /\ Bool(lastReachable)
    \/ /\ lastOp = "handle_event"
       /\ lastEvent.home_id = OwnHome /\ lastEvent.home.id = OwnHome
       /\ lastEvent.event_type = EVENT_TYPE_THERM_MODE

\* C2: the lookup tables are mutually consistent: each of the seven vendor
\* modes is a key of NETATMO_MAP_PRESET, its preset is a key of
\* HVAC_MAP_NETATMO with a value in SUPPORT_HVAC, every preset of
\* SUPPORT_PRESET is a key of PRESET_MAP_NETATMO and of HVAC_MAP_NETATMO, and
\* no run of handle_event or async_update_callback on one of these modes ends
\* in a failed lookup: it leaves the preset and hvac mode of the tables.
C2_TablesConsistent ==
    /\ \A m \in VendorModes :
          /\ m \in DOMAIN NETATMO_MAP_PRESET
          /\ NETATMO_MAP_PRESET[m] \in DOMAIN HVAC_MAP_NETATMO
          /\ HVAC_MAP_NETATMO[NETATMO_MAP_PRESET[m]] \in SUPPORT_HVAC
    /\ \A p \in SUPPORT_PRESET :
          p \in DOMAIN PRESET_MAP_NETATMO /\ p \in DOMAIN HVAC_MAP_NETATMO
    /\ DidLookups =>
          /\ err = NoError
          /\ entity.preset \in DOMAIN HVAC_MAP_NETATMO
          /\ entity.hvac_mode = HVAC_MAP_NETATMO[entity.preset]

C2_Witness ==
    /\ lastOp = "handle_event"
    /\ lastEvent.home_id = OwnHome /\ lastEvent.home.id = OwnHome
    /\ lastEvent.event_type = EVENT_TYPE_THERM_MODE
    /\ lastEvent.home.therm_mode = STATE_NETATMO_MANUAL
    /\ entity.preset = STATE_NETATMO_MANUAL
    /\ entity.hvac_mode = HVAC_MODE_AUTO
    /\ err = NoError

\* a set-point or cancel-set-point event whose rooms list lacks the entity's room
LacksOwnRoom(data) ==
    /\ data.event_type \in {EVENT_TYPE_SET_POINT, EVENT_TYPE_CANCEL_SET_POINT}
    /\ ~HasOwnRoom(data)

\* the run of handle_event that ends in this step left the entity alone
LeftAlone == entity' = entity /\ ~rendered' /\ ~forced'

\* C8 as stated: an event whose home_id or home.id differs from the entity's
\* home, and a set-point or cancel-set-point event whose rooms list does not
\* contain the entity's room, leave every cached field unchanged and request
\* no re-render and no forced update.
C8_OtherDeviceLeftAlone ==
    [][ (/\ lastOp' = "handle_event"
         /\ \/ lastEvent'.home_id # OwnHome
            \/ lastEvent'.home.id # OwnHome
            \/ LacksOwnRoom(lastEvent'))
        => LeftAlone ]_vars

\* C8 amended: the same, except that home.id is not looked at for a schedule
\* event that carries a schedule_id (home_id alone decides for it).
C8_OtherDeviceLeftAloneAmended ==
    [][ (/\ lastOp' = "handle_event"
         /\ \/ lastEvent'.home_id # OwnHome
            \/ /\ lastEvent'.home.id # OwnHome
               /\ ~(/\ lastEvent'.event_type = EVENT_TYPE_SCHEDULE
                    /\ lastEvent'.schedule_id # Absent)
            \/ LacksOwnRoom(lastEvent'))
        => LeftAlone ]_vars

C8_Witness ==
    /\ lastOp = "handle_event"
    /\ lastEvent.home_id = OwnHome /\ lastEvent.home.id # OwnHome
    /\ lastEvent.event_type = EVENT_TYPE_SET_POINT
    /\ HasOwnRoom(lastEvent)
    /\ OwnRoomOf(lastEvent).therm_setpoint_mode = STATE_NETATMO_OFF
    /\ entity.hvac_mode = HVAC_MODE_HEAT
    /\ ~rendered /\ ~forced

\* a cancel-set-point event for the entity's own home and room
OwnCancelSetPoint(data) ==
    /\ data.home_id = OwnHome /\ data.home.id = OwnHome
    /\ data.event_type = EVENT_TYPE_CANCEL_SET_POINT
    /\ HasOwnRoom(data)

\* C9: the entity is available exactly when the most recent
\* async_update_callback found the room reachable (never, before any refresh),
\* and a refresh that finds the room unreachable changes no cached field but
\* the connection flag.
C9_AvailableIffReachable ==
    /\ [](available(entity) <=> Bool(lastReachable))
    /\ [][ (/\ \/ lastOp' = "async_update_callback"
               \/ lastOp' = "handle_event" /\ OwnCancelSetPoint(lastEvent')
            /\ ~Bool(lastReachable'))
           => /\ [entity' EXCEPT !.connected = entity.connected] = entity
              /\ entity'.connected \in {entity.connected, "False"} ]_vars

C9_Witness ==
    /\ lastOp = "async_update_callback"
    /\ lastReachable = "False"
    /\ entity.connected = "False"
    /\ entity.preset = PRESET_BOOST
    /\ entity.target_temperature = 21

----------------------------------------------------------------------------
(* Properties of the commands (under CommandSpec)                          *)

\* the command op has returned (or raised) and nothing ran on the entity
\* between its first line and this state
RanAlone(op) == pc = "idle" /\ cmd.op = op /\ ~interleaved

ValidPresets == PresetNames \ InvalidPresets

\* the table of vendor calls by (model, cached hvac mode, requested preset)
PresetCallTable(model, hvac, preset) ==
    IF preset \in {PRESET_BOOST, STATE_NETATMO_MAX}
    THEN IF hvac = HVAC_MODE_HEAT THEN Thermpoint(STATE_NETATMO_HOME)
         ELSE IF model = MODULE_TYPE_VALVE
         THEN ThermpointTemp(STATE_NETATMO_MANUAL, 30)
         ELSE Thermpoint("max")
    ELSE IF preset = PRESET_SCHEDULE THEN Thermmode("schedule")
    ELSE IF preset = PRESET_FROST_GUARD THEN Thermmode("hg")
    ELSE Thermmode("away")

\* C3: for every model, cached hvac mode and preset among boost, max, Schedule,
\* Frost Guard and away, the last vendor call async_set_preset_mode issues is
\* the one of the table, and the call completes without a lookup failure.
C3_PresetCallTable ==
    (RanAlone("async_set_preset_mode") /\ cmd.arg \in ValidPresets) =>
        /\ cmd.raised = None
        /\ calls # <<>>
        /\ calls[Len(calls)] = PresetCallTable(entity.model, start.hvac_mode, cmd.arg)

\* the cached hvac mode, preset and target temperature are those the command
\* started with
CacheAsStarted ==
    /\ entity.hvac_mode = start.hvac_mode
    /\ entity.preset = start.preset
    /\ entity.target_temperature = start.target_temperature

\* C4: async_set_preset_mode with a preset name that is none of boost, max,
\* Schedule, Frost Guard, away issues no vendor call, raises no error and
\* leaves the cached hvac mode, preset and target temperature unchanged, in
\* every cached state.
C4_InvalidPresetIgnored ==
    (RanAlone("async_set_preset_mode") /\ cmd.arg \in InvalidPresets) =>
        /\ calls = <<>>
        /\ cmd.raised = None
        /\ CacheAsStarted

\* the calls async_set_preset_mode(preset) issues when every check is taken
\* against the cached hvac mode and target temperature given
PresetCalls(model, hvac, target, preset) ==
    (IF hvac = "off" THEN <<Thermpoint("home")>> ELSE <<>>)
    \o (IF target = 0 THEN <<Thermpoint("home")>> ELSE <<>>)
    \o (IF preset \in InvalidPresets THEN <<>>
        ELSE IF preset = "max" /\ model # MODULE_TYPE_VALVE /\ hvac # "heat"
        THEN <<>>
        ELSE <<PresetCallTable(model, hvac, preset)>>)

\* the call of async_turn_off
TurnOffCalls(model, hvac) ==
    IF model = MODULE_TYPE_VALVE THEN <<ThermpointTemp("manual", 7)>>
    ELSE IF hvac # "off" THEN <<Thermpoint("off")>>
    ELSE <<>>

\* the calls async_set_hvac_mode(mode) issues when every check is taken
\* against the cached hvac mode and target temperature given
HvacCalls(model, hvac, target, mode) ==
    IF mode = "off" THEN TurnOffCalls(model, hvac)
    ELSE IF mode = "auto"
    THEN (IF hvac = "off" THEN <<Thermpoint("home")>> ELSE <<>>)
         \o PresetCalls(model, hvac, target, PRESET_SCHEDULE)
    ELSE PresetCalls(model, hvac, target, PRESET_BOOST)

\* the calls of the command in cmd, every check taken against the cache it
\* started with
CallsFromStart ==
    IF cmd.op = "async_set_preset_mode"
    THEN PresetCalls(entity.model, start.hvac_mode, start.target_temperature, cmd.arg)
    ELSE HvacCalls(entity.model, start.hvac_mode, start.target_temperature, cmd.arg)

IsModeCommand == cmd.op \in {"async_set_hvac_mode", "async_set_preset_mode"}

\* C7 as stated: whatever events are handled while async_set_hvac_mode or
\* async_set_preset_mode is suspended, its checks are taken against the cached
\* hvac mode and target temperature it started with, so it issues the calls
\* it would issue without the events.
C7_DecisionsAgainstStartCache ==
    (pc = "idle" /\ IsModeCommand) => calls = CallsFromStart

\* C7 amended: the checks made before the command's first suspension are
\* taken against the cache it started with (its first call is the one of the
\* uninterrupted run), and when no callback runs on the entity during the
\* command it issues exactly the calls the starting cache determines.
C7_DecisionsAgainstStartCacheAmended ==
    IsModeCommand =>
        /\ calls # <<>> => /\ CallsFromStart # <<>>
                           /\ calls[1] = CallsFromStart[1]
        /\ (pc = "idle" /\ ~interleaved) => calls = CallsFromStart

C7_Witness ==
    /\ pc = "idle" /\ cmd.op = "async_set_preset_mode" /\ interleaved
    /\ start.hvac_mode = HVAC_MODE_OFF /\ start.target_temperature = 0
    /\ Len(calls) = 2
    /\ Len(CallsFromStart) = 3
    /\ calls[1] = CallsFromStart[1]

\* C10 as stated: async_set_hvac_mode(auto) while the cached hvac mode is off
\* issues one room setpoint 'home' then one async_set_thermmode('schedule');
\* async_set_hvac_mode(off) issues only the turn-off call, and
\* async_set_hvac_mode(heat) only the calls of async_set_preset_mode(boost).
C10_HvacModeCalls ==
    RanAlone("async_set_hvac_mode") =>
        /\ (cmd.arg = HVAC_MODE_AUTO /\ start.hvac_mode = HVAC_MODE_OFF)
              => calls = <<Thermpoint("home"), Thermmode("schedule")>>
        /\ cmd.arg = HVAC_MODE_OFF
              => calls = TurnOffCalls(entity.model, start.hvac_mode)
        /\ cmd.arg = HVAC_MODE_HEAT
              => calls = PresetCalls(entity.model, start.hvac_mode,
                                     start.target_temperature, PRESET_BOOST)

\* C10 amended: async_set_hvac_mode(auto) while the cached hvac mode is off
\* issues the room setpoint 'home' twice (its own turn-on, then the turn-on of
\* async_set_preset_mode, the cached mode being off still), a third time when
\* the cached target temperature is 0, and then one
\* async_set_thermmode('schedule'); off and heat as stated.
C10_HvacModeCallsAmended ==
    RanAlone("async_set_hvac_mode") =>
        /\ (cmd.arg = HVAC_MODE_AUTO /\ start.hvac_mode = HVAC_MODE_OFF)
              => calls = <<Thermpoint("home"), Thermpoint("home")>>
                         \o (IF start.target_temperature = 0
                             THEN <<Thermpoint("home")>> ELSE <<>>)
                         \o <<Thermmode("schedule")>>
        /\ cmd.arg = HVAC_MODE_OFF
              => calls = TurnOffCalls(entity.model, start.hvac_mode)
        /\ cmd.arg = HVAC_MODE_HEAT
              => calls = PresetCalls(entity.model, start.hvac_mode,
                                     start.target_temperature, PRESET_BOOST)

C10_Witness ==
    /\ RanAlone("async_set_hvac_mode")
    /\ cmd.arg = HVAC_MODE_AUTO /\ start.hvac_mode = HVAC_MODE_OFF
    /\ start.target_temperature = 21
    /\ calls = <<Thermpoint("home"), Thermpoint("home"), Thermmode("schedule")>>
    /\ writes = 3

\* the steps of async_set_temperature itself: the call and the resumption
TemperatureStep ==
    /\ lastOp = "idle" /\ lastOp' = "idle"
    /\ cmd'.op = "async_set_temperature"
    /\ pc # pc' \/ cmd'.arg = NoTemp

\* C11: async_set_temperature with a temperature t issues exactly one vendor
\* call, the room setpoint in 'manual' mode for the entity's own room with
\* temperature min(t, 30): never above 30, and t itself when t <= 30; with no
\* temperature it issues no vendor call and requests no re-render; in both
\* cases the command's own steps leave the cached target temperature, hvac
\* mode and preset unchanged.
C11_SetTemperatureCapped ==
    /\ [](cmd.op = "async_set_temperature" =>
            /\ cmd.raised = None
            /\ cmd.arg = NoTemp => pc = "idle" /\ calls = <<>> /\ writes = 0
            /\ cmd.arg # NoTemp =>
                 /\ pc \in {"set_temperature", "idle"}
                 /\ Len(calls) = 1
                 /\ calls[1].fn = "async_set_room_thermpoint"
                 /\ Len(calls[1].args) = 3
                 /\ calls[1].args[1] = OwnRoom
                 /\ calls[1].args[2] = "manual"
                 /\ calls[1].args[3] <= 30
                 /\ calls[1].args[3] = (IF cmd.arg <= 30 THEN cmd.arg ELSE 30)
                 /\ writes = (IF pc = "idle" THEN 1 ELSE 0))
    /\ [][ TemperatureStep =>
             /\ entity'.target_temperature = entity.target_temperature
             /\ entity'.hvac_mode = entity.hvac_mode
             /\ entity'.preset = entity.preset ]_vars

C11_Witness ==
    /\ pc = "idle" /\ cmd.op = "async_set_temperature" /\ cmd.arg = 35
    /\ calls = <<ThermpointTemp(STATE_NETATMO_MANUAL, 30)>>
    /\ writes = 1
    /\ entity.target_temperature = 21

----------------------------------------------------------------------------
(* Properties of the set-schedule service (under ServiceSpec)              *)

\* the places of the stored schedules that carry the name
NamedLike(name) == {i \in 1..Len(schedules) : schedules[i].name = name}

\* C5: _async_service_set_schedule calls async_switch_home_schedule if and
\* only if the name is the name of a schedule stored for the home, then with
\* the id of the first such schedule; otherwise it issues no vendor call; it
\* raises no error and changes no cached field.
C5_ScheduleService ==
    cmd.op = "_async_service_set_schedule" =>
        LET hits == NamedLike(cmd.arg)
        IN /\ hits = {} => calls = <<>>
           /\ hits # {} =>
                calls = <<SwitchHomeSchedule(
                            schedules[CHOOSE i \in hits : \A j \in hits : i <= j].id)>>
           /\ cmd.raised = None
           /\ ~interleaved => CacheAsStarted

C5_Witness ==
    /\ pc = "idle" /\ cmd.op = "_async_service_set_schedule"
    /\ Len(schedules) = 2
    /\ schedules[1].name = "B" /\ schedules[2].name = "B"
    /\ cmd.arg = "B"
    /\ calls = <<SwitchHomeSchedule(schedules[1].id)>>
    /\ entity.selected_schedule = "B"

----------------------------------------------------------------------------
(* Properties of async_setup_entry (under SetupSpec)                       *)

\* the rooms of the topology that are thermostats or valves
ClimateRooms(t) ==
    UNION { { [home |-> t.homes[h].id, room |-> r, model |-> t.homes[h].rooms[r]] :
                r \in {q \in 1..Len(t.homes[h].rooms) :
                          t.homes[h].rooms[q] \in {"NATherm1", "NRV"}} } :
            h \in 1..Len(t.homes) }

\* C6: async_setup_entry raises PlatformNotReady exactly when the topology is
\* missing or its raw data is empty, and then adds no entity, stores no
\* schedules or home names and registers no service; otherwise it adds one
\* entity for each room that is a thermostat or a valve and none for any other.
C6_SetupEntry ==
    LET t == setup.topology
        missing == ~t.present \/ t.raw_data_empty
    IN /\ setup.pc # "start" => (setup.pc = "PlatformNotReady" <=> missing)
       /\ setup.pc = "PlatformNotReady" =>
             /\ setup.added = <<>> /\ setup.entities = <<>>
             /\ setup.data_schedules = {} /\ setup.data_homes = {}
             /\ ~setup.service
       /\ setup.pc = "done" =>
             /\ {setup.added[i] : i \in 1..Len(setup.added)} = ClimateRooms(t)
             /\ Len(setup.added) = Cardinality(ClimateRooms(t))
             /\ setup.service

C6_Witness ==
    /\ setup.pc = "done"
    /\ Len(setup.topology.homes) = 2
    /\ setup.topology.homes[1].rooms = <<"OTM", MODULE_TYPE_VALVE>>
    /\ setup.topology.homes[2].rooms = <<None, MODULE_TYPE_THERM>>
    /\ Len(setup.added) = 2

====
